---- MODULE Spec2Model ----
(***************************************************************************)
(* A model of package opensubs (src/opensubs.go): the Query object, its    *)
(* public operations AddImdb, AddFile, Search, Get and Logout, and the     *)
(* pure helpers moviehash, mapSubInfos, mapOneSub, addSub and              *)
(* parseSubFiles.                                                          *)
(*                                                                         *)
(* Representation.                                                         *)
(*  - Go strings are TLA+ strings, except SubDownloadsCnt, which is parsed  *)
(*    by strconv.Atoi and is therefore a sequence of one-character strings.*)
(*  - A uint64 is a sequence of 16 hexadecimal digits, most significant    *)
(*    first; addition ripples the carry and drops the carry out of digit 1.*)
(*  - A []byte is a sequence of numbers in 0..255.                         *)
(*  - A *SubInfo is an index into the sequence subs (the heap of SubInfo    *)
(*    objects made by the latest mapSubInfos); the indices hold pointers.   *)
(*  - A Go map is a function; a map variable is a record [nil, m] because   *)
(*    Get returns nil maps in some cases and empty maps in others.          *)
(*  - The file system and the remote server are the environment: they are   *)
(*    the variables fs and server, chosen by Init and never changed.        *)
(***************************************************************************)
EXTENDS Integers, Sequences, FiniteSets, TLC

VARIABLES
    fs,        \* file name -> file (the files AddFile may be given)
    server,    \* what the remote answers to LogIn, SearchSubtitles, DownloadSubtitles
    listArgs,  \* Query.listArgs
    hashs,     \* Query.hashs: fingerprint -> file name
    token,     \* Query.token
    byhash,    \* Query.byhash
    byimdb,    \* Query.byimdb
    subs,      \* the SubInfo objects the indices point to
    ret        \* what the latest call returned to its caller

vars == <<fs, server, listArgs, hashs, token, byhash, byimdb, subs, ret>>

-----------------------------------------------------------------------------
(* Bounds of the model.                                                    *)

\* Words per window. The source has 8192 (64 KiB windows); the model keeps the
\* algorithm and shrinks the window.
hashBlocks == 1

\* Largest number of bytes a file has between its first and its last window.
MaxMiddle == 2

\* Largest number of criteria a query accumulates.
MaxArgs == 2

\* Largest number of elements in the answer to SearchSubtitles.
MaxRecords == 3

\* Largest number of elements in the answer to DownloadSubtitles.
MaxPayloads == 2

\* Largest quota given to Get; the quotas are -1..MaxQuota.
MaxQuota == 2

-----------------------------------------------------------------------------
(* Small helpers.                                                          *)

Min(a, b) == IF a < b THEN a ELSE b

Max(a, b) == IF a > b THEN a ELSE b

EmptyMap == [k \in {} |-> k]

NilMap == [nil |-> TRUE, m |-> EmptyMap]

Range(s) == {s[i] : i \in DOMAIN s}

\* A process that panicked in Get runs no further.
Crashed == ret.op = "Get" /\ ret.panic

-----------------------------------------------------------------------------
(* 64-bit unsigned arithmetic, strconv and encoding/binary.                *)

HexChars == <<"0", "1", "2", "3", "4", "5", "6", "7",
              "8", "9", "a", "b", "c", "d", "e", "f">>

DecChars == <<"0", "1", "2", "3", "4", "5", "6", "7", "8", "9">>

\* uint64(n) for a small non-negative n (a file size).
Uint64(n) == [i \in 1..16 |-> IF 16 - i > 6 THEN 0 ELSE (n \div (16 ^ (16 - i))) % 16]

\* The digits of a + b below position i and the carry into it: <<digits, carry>>.
RECURSIVE AddFrom(_, _, _)
AddFrom(a, b, i) ==
    IF i > 16 THEN <<<<>>, 0>>
    ELSE LET low == AddFrom(a, b, i + 1)
             sum == a[i] + b[i] + low[2]
         IN  <<(<<sum % 16>>) \o low[1], sum \div 16>>

\* A saturating addition: what an implementation that refuses to wrap does.
AddSaturating(a, b) ==
    LET r == AddFrom(a, b, 1)
    IN  IF r[2] = 1 THEN [i \in 1..16 |-> 15] ELSE r[1]

\* a + b on uint64: the carry out of the top digit is dropped.
Add64(a, b) == AddFrom(a, b, 1)[1]

\* binary.LittleEndian.Uint64(b) for 8 bytes b: b[8] is the most significant.
LittleEndianUint64(b) == [i \in 1..16 |->
    LET byte == b[8 - ((i - 1) \div 2)]
    IN  IF i % 2 = 1 THEN byte \div 16 ELSE byte % 16]

\* strconv.FormatUint(h, 16): lower case, no leading zeros, "0" for zero.
RECURSIVE HexFrom(_, _)
HexFrom(h, i) == IF i > 16 THEN "" ELSE HexChars[h[i] + 1] \o HexFrom(h, i + 1)

FormatUint16(h) ==
    LET nz == {i \in 1..16 : h[i] # 0}
    IN  IF nz = {} THEN "0"
        ELSE HexFrom(h, CHOOSE i \in nz : \A j \in nz : i <= j)

\* fmt.Sprint(n) for a non-negative integer.
RECURSIVE Sprint(_)
Sprint(n) == IF n < 10 THEN DecChars[n + 1]
             ELSE Sprint(n \div 10) \o DecChars[(n % 10) + 1]

\* strconv.Atoi(s) with its error dropped: an optional sign and decimal digits
\* give the number, anything else gives 0.
DigitOf(c) == IF \E d \in 1..10 : DecChars[d] = c
              THEN (CHOOSE d \in 1..10 : DecChars[d] = c) - 1 ELSE -1

RECURSIVE AtoiDigits(_, _)
AtoiDigits(s, acc) ==
    IF s = <<>> THEN acc
    ELSE IF acc < 0 \/ DigitOf(Head(s)) < 0 THEN -1
    ELSE AtoiDigits(Tail(s), acc * 10 + DigitOf(Head(s)))

Atoi(s) ==
    LET signed == s # <<>> /\ Head(s) \in {"+", "-"}
        digits == IF signed THEN Tail(s) ELSE s
        v      == IF digits = <<>> THEN -1 ELSE AtoiDigits(digits, 0)
    IN  IF v < 0 THEN 0
        ELSE IF signed /\ Head(s) = "-" THEN 0 - v ELSE v

-----------------------------------------------------------------------------
(* Files. A file is [open, stat, read, seek, data]: whether os.Open,       *)
(* File.Stat, File.Read and File.Seek succeed on it, and its bytes. A       *)
(* failing Read delivers no byte.                                           *)

Window == hashBlocks * 8

\* file.Read(buffer[:n]) at offset off: the bytes delivered.
FileRead(f, off, n) ==
    IF ~f.read THEN <<>>
    ELSE SubSeq(f.data, off + 1, Min(off + n, Len(f.data)))

\* file.Seek(delta, 2) at offset off: the new offset. A seek before the start
\* of the file, or on a file that cannot seek, fails and leaves the offset.
FileSeekEnd(f, off, delta) ==
    IF f.seek /\ Len(f.data) + delta >= 0 THEN Len(f.data) + delta ELSE off

\* The loop of moviehash over the 2 * hashBlocks words of the buffer.
RECURSIVE SumBuffer(_, _, _)
SumBuffer(hash, buffer, i) ==
    IF i >= hashBlocks * 2 THEN hash
    ELSE SumBuffer(Add64(hash, LittleEndianUint64(SubSeq(buffer, i * 8 + 1, i * 8 + 8))),
                   buffer, i + 1)

moviehash(f) ==
    IF ~f.open THEN [err |-> TRUE, hash |-> ""]
    ELSE IF ~f.stat THEN [err |-> TRUE, hash |-> ""]
    ELSE
      LET start  == FileRead(f, 0, Window)
          pos    == FileSeekEnd(f, Len(start), 0 - Window)
          end    == FileRead(f, pos, Window)
          buffer == [i \in 1..(2 * Window) |->
                       IF i <= Window
                       THEN (IF i <= Len(start) THEN start[i] ELSE 0)
                       ELSE (IF i - Window <= Len(end) THEN end[i - Window] ELSE 0)]
      IN  [err  |-> FALSE,
           hash |-> FormatUint16(SumBuffer(Uint64(Len(f.data)), buffer, 0))]

-----------------------------------------------------------------------------
(* Query: building the criteria.                                           *)

FileNames == {"a.avi", "b.avi"}

ImdbIds == {"0066921", "0137523"}

AddImdb(imdb, langs) ==
    /\ ~Crashed
    /\ Len(listArgs) < MaxArgs
    /\ listArgs' = Append(listArgs, [sublanguageid |-> langs, imdbid |-> imdb])
    /\ ret' = [op |-> "AddImdb"]
    /\ UNCHANGED <<fs, server, hashs, token, byhash, byimdb, subs>>

AddFile(filename, langs) ==
    /\ ~Crashed
    /\ Len(listArgs) < MaxArgs
    /\ \E r \in {moviehash(fs[filename])} :
          IF ~r.err
          THEN /\ listArgs' = Append(listArgs,
                     [sublanguageid |-> langs, moviehash |-> r.hash,
                      moviebytesize |-> Sprint(Len(fs[filename].data))])
               /\ hashs' = [h \in DOMAIN hashs \cup {r.hash} |->
                              IF h = r.hash THEN filename ELSE hashs[h]]
          ELSE UNCHANGED <<listArgs, hashs>>
    /\ ret' = [op |-> "AddFile", filename |-> filename]
    /\ UNCHANGED <<fs, server, token, byhash, byimdb, subs>>

-----------------------------------------------------------------------------
(* SubInfo, the indices and mapSubInfos.                                    *)
(* A value decoded by the xmlrpc library is [kind, val]; an element of an   *)
(* xmlrpc.Array is [struct |-> FALSE] or [struct |-> TRUE, f |-> members].  *)

\* The fields of SubInfo that mapOneSub fills: all but the last one, reader.
SubInfoFields == {"MatchedBy", "MovieHash", "IDSubtitleFile", "SubLanguageID",
                  "SubFormat", "SubAddDate", "SubDownloadsCnt", "IDMovieImdb",
                  "UserNickName", "UserRank"}

\* The zero value of a string field.
ZeroString(name) == IF name = "SubDownloadsCnt" THEN <<>> ELSE ""

NilReader == [nil |-> TRUE, z |-> <<>>]

mapOneSub(parseMap) ==
    [name \in SubInfoFields \cup {"reader"} |->
        IF name = "reader" THEN NilReader
        ELSE IF name \in DOMAIN parseMap /\ parseMap[name].kind = "string"
             THEN parseMap[name].val
             ELSE ZeroString(name)]

\* The list of a reference and language, empty when there is none.
ListOf(byref, key, lang) ==
    IF key \in DOMAIN byref /\ lang \in DOMAIN byref[key] THEN byref[key][lang] ELSE <<>>

\* An addSub that puts the new candidate in front of the list.
addSubInFront(byref, heap, sub, key) ==
    LET lang   == heap[sub].SubLanguageID
        old    == IF key \in DOMAIN byref THEN byref[key] ELSE EmptyMap
        bylang == [l \in DOMAIN old \cup {lang} |->
                     IF l = lang THEN <<sub>> \o ListOf(byref, key, lang) ELSE old[l]]
    IN  [k \in DOMAIN byref \cup {key} |-> IF k = key THEN bylang ELSE byref[k]]

\* byref.addSub(sub, key), sub a pointer into heap.
addSub(byref, heap, sub, key) ==
    LET lang   == heap[sub].SubLanguageID
        old    == IF key \in DOMAIN byref THEN byref[key] ELSE EmptyMap
        bylang == [l \in DOMAIN old \cup {lang} |->
                     IF l = lang THEN Append(ListOf(byref, key, lang), sub) ELSE old[l]]
    IN  [k \in DOMAIN byref \cup {key} |-> IF k = key THEN bylang ELSE byref[k]]

\* The first loop of mapSubInfos; st is [subs, byhash, hashImdbIndex, matchedImdb].
RECURSIVE mapFirstPass(_, _)
mapFirstPass(data, st) ==
    IF data = <<>> THEN st
    ELSE IF ~Head(data).struct THEN mapFirstPass(Tail(data), st)
    ELSE
      LET heap == Append(st.subs, mapOneSub(Head(data).f))
          sub  == Len(heap)
          with == [st EXCEPT !.subs = heap]
      IN  CASE heap[sub].MatchedBy = "moviehash" ->
                 mapFirstPass(Tail(data),
                   [with EXCEPT
                      !.byhash = addSub(@, heap, sub, heap[sub].MovieHash),
                      !.hashImdbIndex = [k \in DOMAIN @ \cup {heap[sub].IDMovieImdb} |->
                                           IF k = heap[sub].IDMovieImdb THEN sub ELSE @[k]]])
            [] heap[sub].MatchedBy = "imdbid" ->
                 mapFirstPass(Tail(data),
                   [with EXCEPT !.matchedImdb = Append(@, sub)])
            [] OTHER -> mapFirstPass(Tail(data), with)

\* A second loop that keeps only what the candidates before it had matched by
\* hash would allow: the check made on arrival instead of after the first pass.
RECURSIVE mapSecondPassOnArrival(_, _, _, _)
mapSecondPassOnArrival(matchedImdb, heap, hashImdbIndex, acc) ==
    IF matchedImdb = <<>> THEN acc
    ELSE LET sub == Head(matchedImdb)
             seen == \E k \in DOMAIN hashImdbIndex :
                        k = heap[sub].IDMovieImdb /\ hashImdbIndex[k] < sub
         IN  mapSecondPassOnArrival(Tail(matchedImdb), heap, hashImdbIndex,
               IF ~seen THEN addSub(acc, heap, sub, heap[sub].IDMovieImdb) ELSE acc)

\* The second loop of mapSubInfos.
RECURSIVE mapSecondPass(_, _, _, _)
mapSecondPass(matchedImdb, heap, hashImdbIndex, acc) ==
    IF matchedImdb = <<>> THEN acc
    ELSE LET sub == Head(matchedImdb)
         IN  mapSecondPass(Tail(matchedImdb), heap, hashImdbIndex,
               IF heap[sub].IDMovieImdb \notin DOMAIN hashImdbIndex
               THEN addSub(acc, heap, sub, heap[sub].IDMovieImdb)
               ELSE acc)

mapSubInfos(data) ==
    LET st == mapFirstPass(data, [subs |-> <<>>, byhash |-> EmptyMap,
                                  hashImdbIndex |-> EmptyMap, matchedImdb |-> <<>>])
    IN  [subs   |-> st.subs,
         byhash |-> [nil |-> FALSE, m |-> st.byhash],
         byimdb |-> [nil |-> FALSE,
                     m   |-> mapSecondPass(st.matchedImdb, st.subs, st.hashImdbIndex, EmptyMap)]]

-----------------------------------------------------------------------------
(* The remote calls. server is [login, search, download]:                   *)
(*   login    [kind, token], kind one of "error" (the call failed), "empty" *)
(*            (no struct, or an empty one), "notoken" (no string token),    *)
(*            "token";                                                      *)
(*   search, download  [kind, data], kind one of "error", "nostruct" (the   *)
(*            answer is no struct), "nodata" (no array-valued data member), *)
(*            "array".                                                      *)

\* q.connect(): [err, token].
connect ==
    CASE server.login.kind = "error"   -> [err |-> "call", token |-> token]
      [] server.login.kind = "empty"   -> [err |-> "connection problem", token |-> token]
      [] server.login.kind = "token"   -> [err |-> "", token |-> server.login.token]
      [] OTHER                         -> [err |-> "OpenSubtitles Token problem", token |-> token]

\* q.search(): Search returns its result unchanged.
Search ==
    LET c == connect
    IN  /\ ~Crashed
        /\ token' = c.token
        /\ IF c.err # "" THEN
              /\ ret' = [op |-> "Search", err |-> c.err]
              /\ UNCHANGED <<byhash, byimdb, subs>>
           ELSE IF c.token = "" THEN
              /\ ret' = [op |-> "Search", err |-> "invalid token"]
              /\ UNCHANGED <<byhash, byimdb, subs>>
           ELSE IF server.search.kind = "error" THEN
              /\ ret' = [op |-> "Search", err |-> "call"]
              /\ UNCHANGED <<byhash, byimdb, subs>>
           ELSE IF server.search.kind = "array" THEN
              /\ LET r == mapSubInfos(server.search.data)
                 IN  /\ byhash' = r.byhash
                     /\ byimdb' = r.byimdb
                     /\ subs' = r.subs
              /\ ret' = [op |-> "Search", err |-> ""]
           ELSE
              /\ ret' = [op |-> "Search", err |-> ""]
              /\ UNCHANGED <<byhash, byimdb, subs>>
        /\ UNCHANGED <<fs, server, listArgs, hashs>>

\* q.Logout(): the answer of the call is dropped.
Logout ==
    /\ ~Crashed
    /\ ret' = [op |-> "Logout"]
    /\ UNCHANGED <<fs, server, listArgs, hashs, token, byhash, byimdb, subs>>

-----------------------------------------------------------------------------
(* encoding/base64 and compress/gzip.                                       *)
(* A base64 text is a sequence of symbols: 0..63 are the characters of the  *)
(* standard alphabet by value, Pad is "=", NewLine is "\n" and Illegal is   *)
(* any other character.                                                     *)

Pad == 64

NewLine == 65

Illegal == 66

RECURSIVE DecodeQuanta(_)
DecodeQuanta(s) ==
    IF s = <<>> THEN [err |-> FALSE, bytes |-> <<>>]
    ELSE IF Len(s) < 4 THEN [err |-> TRUE, bytes |-> <<>>]
    ELSE
      LET a == s[1]
          b == s[2]
          c == s[3]
          d == s[4]
          rest == SubSeq(s, 5, Len(s))
      IN  IF a < 64 /\ b < 64 /\ c < 64 /\ d < 64 THEN
             LET r == DecodeQuanta(rest)
             IN  [err   |-> r.err,
                  bytes |-> <<a * 4 + b \div 16, (b % 16) * 16 + c \div 4, (c % 4) * 64 + d>>
                            \o r.bytes]
          ELSE IF a < 64 /\ b < 64 /\ c < 64 /\ d = Pad /\ rest = <<>> THEN
             [err |-> FALSE, bytes |-> <<a * 4 + b \div 16, (b % 16) * 16 + c \div 4>>]
          ELSE IF a < 64 /\ b < 64 /\ c = Pad /\ d = Pad /\ rest = <<>> THEN
             [err |-> FALSE, bytes |-> <<a * 4 + b \div 16>>]
          ELSE [err |-> TRUE, bytes |-> <<>>]

\* base64.StdEncoding.DecodeString(text): [err, bytes]. New lines are skipped.
Base64Decode(text) == DecodeQuanta(SelectSeq(text, LAMBDA x : x # NewLine))

\* The bit k (0 is the lowest) of a byte.
Bit(byte, k) == (byte \div (2 ^ k)) % 2

\* CRC-32 (IEEE) on 32-bit values held as sequences of bits, lowest first.
Crc32Poly == <<0, 0, 0, 0, 0, 1, 0, 0, 1, 1, 0, 0, 0, 0, 0, 1,
               0, 0, 0, 1, 1, 1, 0, 1, 1, 0, 1, 1, 0, 1, 1, 1>>

Xor32(x, y) == SubSeq([i \in 1..32 |-> (x[i] + y[i]) % 2], 1, 32)

RECURSIVE Crc32Rounds(_, _)
Crc32Rounds(c, k) ==
    IF k = 0 THEN c
    ELSE LET shifted == Tail(c) \o <<0>>
         IN  Crc32Rounds(IF c[1] = 1 THEN Xor32(shifted, Crc32Poly) ELSE shifted, k - 1)

RECURSIVE Crc32Update(_, _)
Crc32Update(c, data) ==
    IF data = <<>> THEN c
    ELSE Crc32Update(
           Crc32Rounds(Xor32(c, [i \in 1..32 |-> IF i <= 8 THEN Bit(Head(data), i - 1) ELSE 0]), 8),
           Tail(data))

Crc32(data) == Xor32(Crc32Update([i \in 1..32 |-> 1], data), [i \in 1..32 |-> 1])

\* Four bytes, lowest first, as 32 bits, lowest first.
Bits32(b) == SubSeq([i \in 1..32 |-> Bit(b[(i - 1) \div 8 + 1], (i - 1) % 8)], 1, 32)

\* The position after a zero-terminated string that starts at pos, 0 for none.
RECURSIVE AfterZero(_, _)
AfterZero(b, pos) ==
    IF pos > Len(b) THEN 0
    ELSE IF b[pos] = 0 THEN pos + 1
    ELSE AfterZero(b, pos + 1)

\* The position of the first byte after the gzip header of b, 0 when the header
\* is short or wrong: the magic 1f 8b, the method 8, then the optional extra
\* field, name, comment and header checksum.
GzipBodyStart(b) ==
    IF Len(b) < 10 \/ b[1] # 31 \/ b[2] # 139 \/ b[3] # 8 THEN 0
    ELSE
      LET flg == b[4]
          p1  == IF Bit(flg, 2) = 0 THEN 11
                 ELSE IF Len(b) < 12 \/ Len(b) < 12 + b[11] + 256 * b[12] THEN 0
                 ELSE 13 + b[11] + 256 * b[12]
          p2  == IF p1 = 0 \/ Bit(flg, 3) = 0 THEN p1 ELSE AfterZero(b, p1)
          p3  == IF p2 = 0 \/ Bit(flg, 4) = 0 THEN p2 ELSE AfterZero(b, p2)
          p4  == IF p3 = 0 \/ Bit(flg, 1) = 0 THEN p3
                 ELSE IF Len(b) < p3 + 1 THEN 0
                 ELSE IF SubSeq(Crc32(SubSeq(b, 1, p3 - 1)), 1, 16)
                         = SubSeq(Bits32(<<b[p3], b[p3 + 1], 0, 0>>), 1, 16)
                      THEN p3 + 2 ELSE 0
      IN  p4

\* gzip.NewReader(bytes.NewBuffer(b)): it reads the header and nothing more.
\* The reader holds the compressed bytes that follow, which are read later.
gzipNewReader(b) ==
    LET start == GzipBodyStart(b)
    IN  IF start = 0 THEN [err |-> TRUE, reader |-> NilReader]
        ELSE [err |-> FALSE, reader |-> [nil |-> FALSE, z |-> SubSeq(b, start, Len(b))]]

\* The deflate blocks of z from position pos: [err, data, next]. Stored blocks
\* are decoded; the reserved block type is an error, as is a stream that
\* ends early. Blocks compressed with Huffman codes are not decoded.
RECURSIVE Inflate(_, _)
Inflate(z, pos) ==
    IF pos > Len(z) THEN [err |-> "unexpected EOF", data |-> <<>>, next |-> pos]
    ELSE
      LET final == Bit(z[pos], 0)
          type  == Bit(z[pos], 1) + 2 * Bit(z[pos], 2)
      IN  IF type = 3 THEN [err |-> "corrupt input", data |-> <<>>, next |-> pos]
          ELSE IF type # 0 THEN [err |-> "huffman block", data |-> <<>>, next |-> pos]
          ELSE IF pos + 4 > Len(z) THEN [err |-> "unexpected EOF", data |-> <<>>, next |-> pos]
          ELSE
            LET len  == z[pos + 1] + 256 * z[pos + 2]
                nlen == z[pos + 3] + 256 * z[pos + 4]
            IN  IF len + nlen # 65535 THEN [err |-> "corrupt input", data |-> <<>>, next |-> pos]
                ELSE IF pos + 4 + len > Len(z)
                     THEN [err |-> "unexpected EOF", data |-> <<>>, next |-> pos]
                ELSE IF final = 1
                     THEN [err |-> "", data |-> SubSeq(z, pos + 5, pos + 4 + len),
                           next |-> pos + 5 + len]
                ELSE LET r == Inflate(z, pos + 5 + len)
                     IN  [err |-> r.err, data |-> SubSeq(z, pos + 5, pos + 4 + len) \o r.data,
                          next |-> r.next]

\* Reading a SubInfo's reader to its end, as ToFile's io.Copy does: [err, data].
\* The stream is one gzip member: its blocks, then the CRC-32 and the length
\* of the data.
ReadAll(reader) ==
    IF reader.nil THEN [err |-> "nil reader", data |-> <<>>]
    ELSE
      LET r == Inflate(reader.z, 1)
          n == Len(r.data)
      IN  IF r.err # "" THEN [err |-> r.err, data |-> r.data]
          ELSE IF r.next + 7 > Len(reader.z) THEN [err |-> "unexpected EOF", data |-> r.data]
          ELSE IF Bits32(SubSeq(reader.z, r.next, r.next + 3)) # Crc32(r.data)
                  \/ SubSeq(reader.z, r.next + 4, r.next + 7)
                       # <<n % 256, (n \div 256) % 256, (n \div 65536) % 256, 0>>
               THEN [err |-> "gzip: invalid checksum", data |-> r.data]
          ELSE [err |-> "", data |-> r.data]

-----------------------------------------------------------------------------
(* Parsing the downloaded files.                                            *)

\* The member name of a struct as a string: [ok, val].
StringMember(f, name) ==
    IF name \in DOMAIN f /\ f[name].kind = "string"
    THEN [ok |-> TRUE, val |-> f[name].val]
    ELSE [ok |-> FALSE, val |-> ""]

\* q.hashs[hash]: the zero value when the key is missing.
HashsLookup(hs, hash) == IF hash \in DOMAIN hs THEN hs[hash] ELSE ""

\* One turn of the loop of parseSubFiles on the element fi; st is
\* [byhash, byimdb, subs], hs is q.hashs.
parseOne(fi, needed, hs, st) ==
    IF ~fi.struct THEN st
    ELSE
      LET subid   == StringMember(fi.f, "idsubtitlefile")
          subtext == StringMember(fi.f, "data")
      IN  IF ~subid.ok THEN st
          ELSE IF ~subtext.ok THEN st
          ELSE IF subid.val \notin DOMAIN needed THEN st
          ELSE
            LET sub == needed[subid.val]
                gz  == Base64Decode(subtext.val)
            IN  IF gz.err \/ Len(gz.bytes) = 0 THEN st
                ELSE
                  LET rd == gzipNewReader(gz.bytes)
                  IN  IF rd.err THEN st
                      ELSE
                        LET heap == [st.subs EXCEPT ![sub].reader = rd.reader]
                        IN  CASE heap[sub].MatchedBy = "moviehash" ->
                                   [st EXCEPT !.subs = heap,
                                              !.byhash = addSub(@, heap, sub,
                                                           HashsLookup(hs, heap[sub].MovieHash))]
                              [] heap[sub].MatchedBy = "imdbid" ->
                                   [st EXCEPT !.subs = heap,
                                              !.byimdb = addSub(@, heap, sub,
                                                           heap[sub].IDMovieImdb)]
                              [] OTHER -> [st EXCEPT !.subs = heap]

\* A loop that ends at the first element whose id is not among the needed.
RECURSIVE parseLoopUntilUnknown(_, _, _, _)
parseLoopUntilUnknown(array, needed, hs, st) ==
    IF array = <<>> THEN st
    ELSE LET fi    == Head(array)
             subid == IF fi.struct THEN StringMember(fi.f, "idsubtitlefile")
                      ELSE [ok |-> FALSE, val |-> ""]
         IN  IF subid.ok /\ subid.val \notin DOMAIN needed THEN st
             ELSE parseLoopUntilUnknown(Tail(array), needed, hs,
                                        parseOne(fi, needed, hs, st))

RECURSIVE parseLoop(_, _, _, _)
parseLoop(array, needed, hs, st) ==
    IF array = <<>> THEN st
    ELSE parseLoop(Tail(array), needed, hs, parseOne(Head(array), needed, hs, st))

\* q.parseSubFiles(array, needed) on the heap; the result is [byhash, byimdb, subs].
parseSubFiles(array, needed, hs, heap) ==
    LET st == parseLoop(array, needed, hs,
                        [byhash |-> EmptyMap, byimdb |-> EmptyMap, subs |-> heap])
    IN  [byhash |-> [nil |-> FALSE, m |-> st.byhash],
         byimdb |-> [nil |-> FALSE, m |-> st.byimdb],
         subs   |-> st.subs]

\* A download that calls the remote with no id to ask for.
downloadAlways(ids, needed, hs, heap) ==
    IF server.download.kind = "array"
    THEN [called |-> TRUE] @@ parseSubFiles(server.download.data, needed, hs, heap)
    ELSE [called |-> TRUE, byhash |-> NilMap, byimdb |-> NilMap, subs |-> heap]

\* q.download(ids, needed): [called, byhash, byimdb, subs]; called tells whether
\* DownloadSubtitles was called.
download(ids, needed, hs, heap) ==
    IF Len(ids) = 0
    THEN [called |-> FALSE, byhash |-> NilMap, byimdb |-> NilMap, subs |-> heap]
    ELSE IF server.download.kind = "array"
    THEN [called |-> TRUE] @@ parseSubFiles(server.download.data, needed, hs, heap)
    ELSE [called |-> TRUE, byhash |-> NilMap, byimdb |-> NilMap, subs |-> heap]

-----------------------------------------------------------------------------
(* Get: the selection and the download.                                     *)

\* Less with the comparison turned round: lowest first.
byDownloadsLessAscending(heap, i, j) ==
    Atoi(heap[i].SubDownloadsCnt) < Atoi(heap[j].SubDownloadsCnt)

\* byDownloads.Less on two pointers of a list.
byDownloadsLess(heap, i, j) ==
    Atoi(heap[i].SubDownloadsCnt) > Atoi(heap[j].SubDownloadsCnt)

\* sort.Sort(byDownloads{list}): the orders it may leave the list in. sort.Sort
\* promises an order in which no element is Less than the one before it, and
\* does not promise to be stable: equal candidates come out in any order.
SortOutcomes(heap, list) ==
    {[i \in 1..Len(list) |-> list[p[i]]] :
        p \in {q \in Permutations(1..Len(list)) :
                 \A i \in 1..(Len(list) - 1) :
                    ~byDownloadsLess(heap, list[q[i + 1]], list[q[i]])}}

\* The (reference, language) pairs of an index.
PairsOf(byref) == UNION {{<<k, l>> : l \in DOMAIN byref[k]} : k \in DOMAIN byref}

\* The orders in which the two nested range loops may visit the pairs of a
\* map of maps: Go fixes no order, the languages of one reference are
\* visited together.
IterationOrders(byref) ==
    LET P == PairsOf(byref)
        n == Cardinality(P)
    IN  {o \in [1..n -> P] :
           /\ \A i, j \in 1..n : i # j => o[i] # o[j]
           /\ \A i, j, k \in 1..n : (i < j /\ j < k /\ o[i][1] = o[k][1]) => o[j][1] = o[i][1]}

\* One outcome of the sort for every pair of the set P of pairs of an index.
RECURSIVE SortChoicesOf(_, _, _)
SortChoicesOf(heap, byref, P) ==
    IF P = {} THEN {EmptyMap}
    ELSE LET p == CHOOSE x \in P : TRUE
         IN  {[q \in DOMAIN c \cup {p} |-> IF q = p THEN o ELSE c[q]] :
                 c \in SortChoicesOf(heap, byref, P \ {p}),
                 o \in SortOutcomes(heap, byref[p[1]][p[2]])}

SortChoices(heap, byref) == SortChoicesOf(heap, byref, PairsOf(byref))

WithinQuota(list, n) ==
    IF n = -1 THEN list ELSE SubSeq(list, 1, Min(Max(n, 0), Len(list)))

\* sub.SubAddDate[:10] panics on a date of fewer than 10 bytes.
DatePanics(heap, sub) == Len(heap[sub].SubAddDate) < 10

\* The selected candidates of a list up to and with the first one on which
\* the log line panics.
UpToPanic(heap, sel) ==
    LET bad == {t \in 1..Len(sel) : DatePanics(heap, sel[t])}
    IN  IF bad = {} THEN sel
        ELSE SubSeq(sel, 1, CHOOSE t \in bad : \A u \in bad : t <= u)

\* The loop of Get over byimdb, visiting the pairs in the order o with the
\* lists sorted as c: [sel, sorted, panic], the candidates selected in order,
\* the pairs whose list was sorted, and whether the loop panicked.
RECURSIVE imdbLoop(_, _, _, _, _, _)
imdbLoop(heap, o, c, n, i, acc) ==
    IF i > Len(o) THEN acc
    ELSE
      LET sel == WithinQuota(c[o[i]], n)
          cut == UpToPanic(heap, sel)
          now == [sel    |-> acc.sel \o cut,
                  sorted |-> acc.sorted \cup {o[i]},
                  panic  |-> \E t \in 1..Len(sel) : DatePanics(heap, sel[t])]
      IN  IF now.panic THEN now ELSE imdbLoop(heap, o, c, n, i + 1, now)

\* needed after the candidates sel were entered in order: a later candidate
\* replaces an earlier one of the same id.
NeededOf(heap, sel) ==
    [id \in {heap[sel[i]].IDSubtitleFile : i \in 1..Len(sel)} |->
        sel[CHOOSE i \in 1..Len(sel) :
              /\ heap[sel[i]].IDSubtitleFile = id
              /\ \A j \in 1..Len(sel) : heap[sel[j]].IDSubtitleFile = id => j <= i]]

\* An index with the lists of the pairs in done replaced by those of c.
Resorted(byref, c, done) ==
    [k \in DOMAIN byref |->
        [l \in DOMAIN byref[k] |-> IF <<k, l>> \in done THEN c[<<k, l>>] ELSE byref[k][l]]]

Get(n) ==
    /\ ~Crashed
    /\ \E HO \in {IterationOrders(byhash.m)}, IO \in {IterationOrders(byimdb.m)},
          HC \in {SortChoices(subs, byhash.m)}, IC \in {SortChoices(subs, byimdb.m)} :
       \E ho \in HO, io \in IO, hc \in HC, ic \in IC :
       \E loop \in {imdbLoop(subs, io, ic, n, 1, [sel |-> <<>>, sorted |-> {}, panic |-> FALSE])} :
       \E sel \in {[i \in 1..Len(ho) |-> hc[ho[i]][1]] \o loop.sel} :
       \E dl \in {[i \in 1..Len(sel) |-> subs[sel[i]].IDSubtitleFile]},
          needed \in {NeededOf(subs, sel)} :
          /\ byhash' = [byhash EXCEPT !.m = Resorted(@, hc, PairsOf(@))]
          /\ byimdb' = [byimdb EXCEPT !.m = Resorted(@, ic, loop.sorted)]
          /\ IF loop.panic
             THEN /\ subs' = subs
                  /\ ret' = [op |-> "Get", n |-> n, panic |-> TRUE, called |-> FALSE,
                             dl |-> dl, needed |-> needed,
                             byhash |-> NilMap, byimdb |-> NilMap]
             ELSE \E r \in {download(dl, needed, hashs, subs)} :
                  /\ subs' = r.subs
                  /\ ret' = [op |-> "Get", n |-> n, panic |-> FALSE, called |-> r.called,
                             dl |-> dl, needed |-> needed,
                             byhash |-> r.byhash, byimdb |-> r.byimdb]
    /\ UNCHANGED <<fs, server, listArgs, hashs, token>>

-----------------------------------------------------------------------------
(* Specifications.                                                          *)

SeqsUpTo(S, n) == UNION {[1..k -> S] : k \in 0..n}

NewQuery ==
    /\ listArgs = <<>>
    /\ hashs = EmptyMap
    /\ token = ""
    /\ byhash = NilMap
    /\ byimdb = NilMap
    /\ subs = <<>>
    /\ ret = [op |-> "NewQuery"]

File(open, stat, read, seek, data) ==
    [open |-> open, stat |-> stat, read |-> read, seek |-> seek, data |-> data]

\* A remote that answers nothing useful.
QuietServer == [login    |-> [kind |-> "error", token |-> ""],
                search   |-> [kind |-> "error", data |-> <<>>],
                download |-> [kind |-> "error", data |-> <<>>]]

(* SpecHash: the fingerprint. The file a.avi is drawn from files of every   *)
(* size up to two windows and MaxMiddle bytes, filled with one byte value    *)
(* and at most one byte that differs, on a window border; or from files on   *)
(* which one of the four system calls fails. b.avi is a.avi, or a.avi with   *)
(* one byte changed.                                                         *)

MaxFileSize == 2 * Window + MaxMiddle

FileData(size, base, p, v) == [i \in 1..size |-> IF i = p THEN v ELSE base]

Marks(size) == {0} \cup ({1, Window, Window + 1, size - Window, size - Window + 1, size}
                          \cap (1..size))

HashFiles ==
    UNION {UNION {{File(TRUE, TRUE, TRUE, TRUE, FileData(size, base, p, 1)) : p \in Marks(size)}
                  : base \in {0, 255}}
           : size \in 0..MaxFileSize}

ErrorFiles ==
    UNION {{File(FALSE, TRUE, TRUE, TRUE, FileData(size, 255, 0, 0)),
            File(TRUE, FALSE, TRUE, TRUE, FileData(size, 255, 0, 0)),
            File(TRUE, TRUE, FALSE, TRUE, FileData(size, 255, 0, 0)),
            File(TRUE, TRUE, TRUE, FALSE, FileData(size, 255, 0, 0))}
           : size \in {0, Window, MaxFileSize}}

Variants(f) ==
    {f} \cup {[f EXCEPT !.data[p] = (@ + 1) % 256]
              : p \in {1, Window + 1, Len(f.data)} \cap (1..Len(f.data))}

InitHash ==
    /\ \E a \in HashFiles \cup ErrorFiles : \E b \in Variants(a) :
          fs = [n \in FileNames |-> IF n = "a.avi" THEN a ELSE b]
    /\ server = QuietServer
    /\ NewQuery

NextHash ==
    \/ \E f \in FileNames : AddFile(f, "eng")
    \/ AddImdb("0066921", "eng")

SpecHash == InitHash /\ [][NextHash]_vars

(* The answers of the remote.                                               *)

Str(v) == [kind |-> "string", val |-> v]

Num(v) == [kind |-> "int", val |-> v]

NotStruct == [struct |-> FALSE]

GoodDate == "2012-03-04 05:06:07"

\* An element of the answer to SearchSubtitles, its IDSubtitleFile left open.
\* SubHash is a member SubInfo has no field for.
SearchRecord(matchedby, hash, imdb, lang, cnt, date) ==
    [struct |-> TRUE,
     f |-> [MatchedBy       |-> Str(matchedby),
            MovieHash       |-> Str(hash),
            IDSubtitleFile  |-> Str(""),
            SubLanguageID   |-> Str(lang),
            SubFormat       |-> Str("srt"),
            SubAddDate      |-> Str(date),
            SubDownloadsCnt |-> Str(cnt),
            IDMovieImdb     |-> Str(imdb),
            UserNickName    |-> Str("nick"),
            UserRank        |-> Str("rank"),
            SubHash         |-> Str("0123")]]

\* The same element without the member name.
Without(rec, name) == [rec EXCEPT !.f = [m \in DOMAIN rec.f \ {name} |-> rec.f[m]]]

SubIds == <<"101", "102", "103", "104", "105", "106">>

\* The elements numbered in the order of the answer: the remote gives every
\* subtitle file its own id.
WithIds(shapes) ==
    [i \in DOMAIN shapes |->
        IF shapes[i].struct /\ "IDSubtitleFile" \in DOMAIN shapes[i].f
        THEN [shapes[i] EXCEPT !.f.IDSubtitleFile = Str(SubIds[i])]
        ELSE shapes[i]]

Array(data) == [kind |-> "array", data |-> data]

LoggedIn == [kind |-> "token", token |-> "tok"]

(* SpecMap: mapSubInfos on every answer of at most MaxRecords elements      *)
(* drawn from MapShapes.                                                    *)

MapShapes ==
    {SearchRecord("moviehash", h, i, l, <<"5">>, GoodDate)
        : h \in {"1f", "2e"}, i \in ImdbIds, l \in {"eng", "fre"}}
    \cup {SearchRecord("imdbid", "", i, l, <<"5">>, GoodDate)
        : i \in ImdbIds, l \in {"eng", "fre"}}
    \cup {SearchRecord("tag", "", "0066921", "eng", <<"5">>, GoodDate),
          Without(SearchRecord("", "", "0066921", "eng", <<"5">>, GoodDate), "MatchedBy"),
          NotStruct}

MainFs == [n \in FileNames |->
             IF n = "a.avi"
             THEN File(TRUE, TRUE, TRUE, TRUE, FileData(MaxFileSize, 0, 1, 1))
             ELSE File(TRUE, TRUE, TRUE, TRUE, FileData(Window - 1, 255, 1, 1))]

InitMap ==
    /\ fs = MainFs
    /\ \E shapes \in SeqsUpTo(MapShapes, MaxRecords) :
          server = [login    |-> LoggedIn,
                    search   |-> Array(WithIds(shapes)),
                    download |-> [kind |-> "error", data |-> <<>>]]
    /\ NewQuery

NextMap == Search

SpecMap == InitMap /\ [][NextMap]_vars

(* The payloads of the answer to DownloadSubtitles. The data member is a   *)
(* base64 text; the texts below are real encodings.                         *)

\* "H4sIAAAAAAAA/wECAP3/aGmsKpPYAgAAAA==": the gzip file of the two bytes "hi",
\* one stored block.
GoodData == <<7, 56, 44, 8, 0, 0, 0, 0, 0, 0, 0, 0, 63, 48, 4, 2, 0, 15, 55, 63,
              26, 6, 38, 44, 10, 41, 15, 24, 0, 32, 0, 0, 0, 0, Pad, Pad>>

\* "H4sIAAAAAAAA/wesKpPYAgAAAA==": a gzip header followed by a block of the
\* reserved type.
CorruptBodyData == <<7, 56, 44, 8, 0, 0, 0, 0, 0, 0, 0, 0, 63, 48, 30, 44, 10, 41,
                     15, 24, 0, 32, 0, 0, 0, 0, Pad, Pad>>

\* "aGkK": the three bytes "hi\n", not compressed.
NotGzipData == <<26, 6, 36, 10>>

\* "": no byte.
EmptyData == <<>>

\* "aGk!": not base64.
NotBase64Data == <<26, 6, 36, Illegal>>

Payload(id, data) == [struct |-> TRUE, f |-> [idsubtitlefile |-> id, data |-> data]]

(* SpecSelect: Search, then Get with every quota, on every answer of at    *)
(* most MaxRecords elements drawn from SelectShapes; the download call      *)
(* fails.                                                                   *)

BadDate == "2012"

SelectShapes ==
    {SearchRecord("moviehash", "1f", "0066921", "eng", <<"5">>, GoodDate),
     SearchRecord("moviehash", "1f", "0066921", "eng", <<"2", "0">>, GoodDate),
     SearchRecord("moviehash", "2e", "0066921", "eng", <<"5">>, GoodDate),
     SearchRecord("imdbid", "", "0137523", "eng", <<"5">>, GoodDate),
     SearchRecord("imdbid", "", "0137523", "eng", <<"2", "0">>, GoodDate),
     SearchRecord("imdbid", "", "0137523", "eng", <<"1">>, GoodDate),
     SearchRecord("imdbid", "", "0137523", "fre", <<"5">>, GoodDate),
     SearchRecord("imdbid", "", "0137523", "eng", <<"2", "0">>, BadDate)}

Quotas == -1..MaxQuota

InitSelect ==
    /\ fs = MainFs
    /\ \E shapes \in SeqsUpTo(SelectShapes, MaxRecords) :
          server = [login    |-> LoggedIn,
                    search   |-> Array(WithIds(shapes)),
                    download |-> [kind |-> "error", data |-> <<>>]]
    /\ NewQuery

NextSelect ==
    \/ Search
    \/ \E n \in Quotas : Get(n)

SpecSelect == InitSelect /\ [][NextSelect]_vars

(* SpecDecode: AddFile, Search and Get on two answers and on every        *)
(* answer to DownloadSubtitles of at most MaxPayloads payloads drawn from   *)
(* DecodePayloads, or no array at all.                                      *)

\* The fingerprint of a.avi.
Ha == moviehash(MainFs["a.avi"]).hash

\* A fingerprint as the remote writes it: sixteen digits.
RECURSIVE ZeroPadded(_)
ZeroPadded(h) == IF Len(h) >= 16 THEN h ELSE ZeroPadded("0" \o h)

\* A match by the fingerprint of a.avi as AddFile wrote it and two by one
\* catalog id; two matches by the fingerprint of a.avi written with sixteen
\* digits, and one by catalog id.
DecodeAnswers ==
    {<<SearchRecord("moviehash", Ha, "0066921", "eng", <<"5">>, GoodDate),
       SearchRecord("imdbid", "", "0137523", "eng", <<"5">>, GoodDate),
       SearchRecord("imdbid", "", "0137523", "eng", <<"2", "0">>, GoodDate)>>,
     <<SearchRecord("moviehash", ZeroPadded(Ha), "0066921", "eng", <<"5">>, GoodDate),
       SearchRecord("moviehash", ZeroPadded(Ha), "0066921", "eng", <<"2", "0">>, GoodDate),
       SearchRecord("imdbid", "", "0137523", "eng", <<"5">>, GoodDate)>>}

DecodePayloads ==
    {Payload(Str(id), Str(GoodData)) : id \in {"101", "102", "103"}}
    \cup {Payload(Str("102"), Str(data))
            : data \in {CorruptBodyData, NotGzipData, EmptyData, NotBase64Data}}
    \cup {Payload(Num(102), Str(GoodData)),
          Without(Payload(Str("102"), Str(GoodData)), "data"),
          NotStruct}

DecodeQuotas == {-1, 1}

InitDecode ==
    /\ fs = MainFs
    /\ \E shapes \in DecodeAnswers :
       \E dl \in {Array(a) : a \in SeqsUpTo(DecodePayloads, MaxPayloads)}
                 \cup {[kind |-> "error", data |-> <<>>], [kind |-> "nodata", data |-> <<>>]} :
          server = [login |-> LoggedIn, search |-> Array(WithIds(shapes)), download |-> dl]
    /\ NewQuery

NextDecode ==
    \/ AddFile("a.avi", "eng")
    \/ Search
    \/ \E n \in DecodeQuotas : Get(n)

SpecDecode == InitDecode /\ [][NextDecode]_vars

(* Spec: every operation of a query, on a remote whose answers may change  *)
(* from one call to the next.                                               *)

Remotes ==
    {[login |-> l, search |-> a, download |-> d]
        : l \in {LoggedIn, [kind |-> "error", token |-> ""],
                 [kind |-> "empty", token |-> ""], [kind |-> "notoken", token |-> ""],
                 [kind |-> "token", token |-> ""]},
          a \in {Array(WithIds(shapes)) : shapes \in DecodeAnswers}
                \cup {[kind |-> "error", data |-> <<>>], [kind |-> "nodata", data |-> <<>>]},
          d \in {Array(<<Payload(Str("102"), Str(GoodData))>>),
                 [kind |-> "error", data |-> <<>>]}}

Init ==
    /\ fs = MainFs
    /\ server \in Remotes
    /\ NewQuery

\* The remote is not the program's: between two calls its answers may change.
RemoteChanges ==
    /\ server' \in Remotes
    /\ UNCHANGED <<fs, listArgs, hashs, token, byhash, byimdb, subs, ret>>

Next ==
    \/ AddImdb("0137523", "eng")
    \/ AddFile("a.avi", "eng")
    \/ Search
    \/ \E n \in DecodeQuotas : Get(n)
    \/ Logout
    \/ RemoteChanges

Spec == Init /\ [][Next]_vars

-----------------------------------------------------------------------------
(* Properties.                                                              *)

CountOf(sub) == Atoi(subs[sub].SubDownloadsCnt)

IdOf(sub) == subs[sub].IDSubtitleFile

\* The catalog ids of the candidates matched by fingerprint.
SeenByHash == {subs[i].IDMovieImdb : i \in {j \in DOMAIN subs : subs[j].MatchedBy = "moviehash"}}

\* The candidates an index holds.
Held(byref) == UNION {Range(byref[p[1]][p[2]]) : p \in PairsOf(byref)}

SearchMapped == ret.op = "Search" /\ ret.err = "" /\ server.search.kind = "array"

\* C1: after mapSubInfos, a catalog id carried by some candidate matched by
\* fingerprint is no key of byimdb and the id of no candidate in byimdb,
\* wherever the records matched by catalog id stood in the answer; and every
\* candidate matched by catalog id whose id no fingerprint match carries is in
\* byimdb under its catalog id and its language.
HashMatchedNeverInByImdb ==
    SearchMapped =>
      /\ \A x \in SeenByHash :
            /\ x \notin DOMAIN byimdb.m
            /\ \A sub \in Held(byimdb.m) : subs[sub].IDMovieImdb # x
      /\ \A sub \in DOMAIN subs :
            (subs[sub].MatchedBy = "imdbid" /\ subs[sub].IDMovieImdb \notin SeenByHash)
            => sub \in Range(ListOf(byimdb.m, subs[sub].IDMovieImdb, subs[sub].SubLanguageID))

\* C1, witness: a record matched by catalog id stands before a record matched
\* by fingerprint with the same catalog id, and another catalog id is in byimdb.
ImdbBeforeHashMapped ==
    /\ SearchMapped
    /\ \E i, j \in DOMAIN subs :
          /\ i < j
          /\ subs[i].MatchedBy = "imdbid"
          /\ subs[j].MatchedBy = "moviehash"
          /\ subs[i].IDMovieImdb = subs[j].IDMovieImdb
    /\ DOMAIN byimdb.m # {}

\* The pairs of byhash, and the part of the download ids that the loop over
\* byimdb added.
HashPairs == PairsOf(byhash.m)

ImdbPart == SubSeq(ret.dl, Cardinality(HashPairs) + 1, Len(ret.dl))

\* What Get selected for the pairs of byhash: one id for each pair, that of the
\* head of its list, entered in needed; the head has the highest count.
OnePerHashPair ==
    /\ Len(ret.dl) >= Cardinality(HashPairs)
    /\ {ret.dl[i] : i \in 1..Cardinality(HashPairs)}
         = {IdOf(byhash.m[p[1]][p[2]][1]) : p \in HashPairs}
    /\ \A p \in HashPairs :
          LET list == byhash.m[p[1]][p[2]]
          IN  /\ IdOf(list[1]) \in DOMAIN ret.needed
              /\ ret.needed[IdOf(list[1])] = list[1]
              /\ \A j \in 1..Len(list) : CountOf(list[1]) >= CountOf(list[j])
              /\ \A j \in 2..Len(list) : IdOf(list[j]) \notin Range(ret.dl)

\* C2 as amended: for every pair of byhash, Get enters exactly one download id
\* in the output sequence and in needed, the id of a candidate with the highest
\* download count of the pair; which one of several with that count is not
\* fixed.
TopOfEachHashPairSelected == ret.op = "Get" => OnePerHashPair

\* C2 as claimed: among several candidates with the highest count, the one
\* inserted first is selected. Candidates are numbered in the order of
\* insertion.
FirstInsertedOfTiesSelected ==
    ret.op = "Get" =>
      /\ OnePerHashPair
      /\ \A p \in HashPairs :
            LET list == byhash.m[p[1]][p[2]]
            IN  \A j \in 1..Len(list) :
                   CountOf(list[j]) = CountOf(list[1]) => list[1] <= list[j]

\* C2, witness: Get ran on a pair of byhash in which two candidates have the
\* highest count and a third has less.
HashPairWithTieSelected ==
    /\ ret.op = "Get"
    /\ \E p \in HashPairs :
          LET list == byhash.m[p[1]][p[2]]
          IN  /\ Len(list) >= 3
              /\ CountOf(list[1]) = CountOf(list[2])
              /\ CountOf(list[2]) > CountOf(list[3])
              /\ IdOf(list[1]) \in DOMAIN ret.needed

\* The number of candidates Get is to select from a list of length k.
QuotaOf(n, k) == IF n = -1 THEN k ELSE Min(n, k)

RECURSIVE SumOver(_, _)
SumOver(S, f) == IF S = {} THEN 0
                 ELSE LET x == CHOOSE y \in S : TRUE IN f[x] + SumOver(S \ {x}, f)

\* For every pair of byimdb the output sequence holds, side by side and in
\* ranked order, the ids of the first QuotaOf candidates of the list, the list
\* is in descending order of count and keeps all its candidates, and the
\* output holds nothing else.
QuotaRespected ==
    /\ \A p \in PairsOf(byimdb.m) :
          LET list == byimdb.m[p[1]][p[2]]
              m    == QuotaOf(ret.n, Len(list))
          IN  /\ \A j \in 1..(Len(list) - 1) : CountOf(list[j]) >= CountOf(list[j + 1])
              /\ \E off \in 0..(Len(ImdbPart) - m) :
                    \A t \in 1..m : ImdbPart[off + t] = IdOf(list[t])
              /\ \A t \in 1..m : /\ IdOf(list[t]) \in DOMAIN ret.needed
                                 /\ ret.needed[IdOf(list[t])] = list[t]
              /\ \A t \in (m + 1)..Len(list) : IdOf(list[t]) \notin Range(ret.dl)
    /\ Len(ImdbPart)
         = SumOver(PairsOf(byimdb.m),
                   [p \in PairsOf(byimdb.m) |-> QuotaOf(ret.n, Len(byimdb.m[p[1]][p[2]]))])
    /\ Held(byimdb.m) = {i \in DOMAIN subs : /\ subs[i].MatchedBy = "imdbid"
                                             /\ subs[i].IDMovieImdb \notin SeenByHash}

\* C3: for every pair of byimdb with k candidates Get emits the ids of the
\* first min(n, k) candidates in descending order of count, all k for n = -1,
\* in ranked order, and the candidates beyond the quota stay in byimdb.
QuotaSelectionEmitted == ret.op = "Get" => (~ret.panic /\ QuotaRespected)

\* C3, witness: Get panicked on the date of a candidate it had selected.
DateOfSelectedPanicked ==
    /\ ret.op = "Get" /\ ret.panic
    /\ ret.n # 0
    /\ \E c \in Held(byimdb.m) : Len(subs[c].SubAddDate) < 10 /\ IdOf(c) \in Range(ret.dl)

\* The selection is as described whenever the log line of Get does not panic.
QuotaSelectionUnlessPanic == (ret.op = "Get" /\ ~ret.panic) => QuotaRespected

\* Nothing to select: byhash is empty, and byimdb is empty or the quota is 0.
NothingToSelect ==
    /\ ret.op = "Get"
    /\ HashPairs = {}
    /\ PairsOf(byimdb.m) = {} \/ ret.n = 0

\* What Get returns when the download call fails.
FailedDownloadReturn ==
    LET r == download(<<"101">>, EmptyMap, hashs, subs)
    IN  <<r.byhash, r.byimdb>>

\* C10 as amended: with nothing to select Get makes no download call and
\* returns two nil maps, which hold nothing, and no error value; it returns
\* the same two nil maps when the download call fails.
NothingToSelectReturnsNil ==
    NothingToSelect =>
      /\ ~ret.panic
      /\ ~ret.called
      /\ ret.dl = <<>>
      /\ ret.byhash = NilMap /\ DOMAIN ret.byhash.m = {}
      /\ ret.byimdb = NilMap /\ DOMAIN ret.byimdb.m = {}

\* C10 as claimed: the outcome of nothing to select is also told apart from
\* the outcome of a download call that failed.
NothingToSelectDistinguishable ==
    NothingToSelect =>
      /\ ~ret.called
      /\ DOMAIN ret.byhash.m = {} /\ DOMAIN ret.byimdb.m = {}
      /\ <<ret.byhash, ret.byimdb>> # FailedDownloadReturn

\* C10, witness: Get with quota 0 on a query that has catalog-id matches and no
\* fingerprint match made no download call.
QuotaZeroSelectedNothing ==
    /\ ret.op = "Get" /\ ret.n = 0
    /\ PairsOf(byimdb.m) # {} /\ HashPairs = {}
    /\ ~ret.called

\* The file is read without error: the four calls succeed and the seek to the
\* last window does not go before the start of the file.
ReadsWell(f) == f.open /\ f.stat /\ f.read /\ f.seek /\ Len(f.data) >= Window

\* size + the words of the first window + the words of the last window modulo
\* 2^64, computed byte column by byte column: the bytes of the sum, lowest
\* first, then the carry out of the top byte.
RECURSIVE ColumnSum(_, _, _)
ColumnSum(w, k, j) == IF j >= hashBlocks THEN 0 ELSE w[8 * j + k] + ColumnSum(w, k, j + 1)

RECURSIVE SumColumns(_, _, _)
SumColumns(f, k, carry) ==
    IF k > 8 THEN <<carry>>
    ELSE LET size == Len(f.data)
             col  == (IF k <= 3 THEN (size \div (256 ^ (k - 1))) % 256 ELSE 0)
                     + ColumnSum(SubSeq(f.data, 1, Window), k, 0)
                     + ColumnSum(SubSeq(f.data, size - Window + 1, size), k, 0)
                     + carry
         IN  <<col % 256>> \o SumColumns(f, k + 1, col \div 256)

RECURSIVE HexOfBytes(_, _, _)
HexOfBytes(b, k, leading) ==
    IF k = 0 THEN (IF leading THEN "0" ELSE "")
    ELSE LET hi == b[k] \div 16
             lo == b[k] % 16
         IN  (IF leading /\ hi = 0 THEN "" ELSE HexChars[hi + 1])
             \o (IF leading /\ hi = 0 /\ lo = 0 THEN "" ELSE HexChars[lo + 1])
             \o HexOfBytes(b, k - 1, leading /\ b[k] = 0)

SizePlusWindows(f) == HexOfBytes(SumColumns(f, 1, 0), 8, TRUE)

IsFileCriterion(arg) == "moviehash" \in DOMAIN arg

\* C8: the fingerprint AddFile submits for a file of at least one window that
\* is read without error is size + first window + last window modulo 2^64,
\* also when the windows overlap; so two files of the same size and windows
\* get the same fingerprint, as does one file added twice.
FingerprintIsSizePlusWindows ==
    /\ (ret.op = "AddFile" /\ ReadsWell(fs[ret.filename]))
       => /\ listArgs # <<>>
          /\ IsFileCriterion(listArgs[Len(listArgs)])
          /\ listArgs[Len(listArgs)].moviehash = SizePlusWindows(fs[ret.filename])
          /\ HashsLookup(hashs, listArgs[Len(listArgs)].moviehash) = ret.filename
    /\ (/\ \A n \in FileNames : ReadsWell(fs[n])
        /\ \A n, o \in FileNames :
              /\ Len(fs[n].data) = Len(fs[o].data)
              /\ SubSeq(fs[n].data, 1, Window) = SubSeq(fs[o].data, 1, Window)
              /\ SubSeq(fs[n].data, Len(fs[n].data) - Window + 1, Len(fs[n].data))
                   = SubSeq(fs[o].data, Len(fs[o].data) - Window + 1, Len(fs[o].data)))
       => \A i, j \in DOMAIN listArgs :
             (IsFileCriterion(listArgs[i]) /\ IsFileCriterion(listArgs[j]))
             => listArgs[i].moviehash = listArgs[j].moviehash

\* C8, witness: AddFile fingerprinted a file whose two windows overlap and
\* whose sum passed 2^64.
OverlapAndWrapFingerprinted ==
    /\ ret.op = "AddFile"
    /\ ReadsWell(fs[ret.filename])
    /\ Len(fs[ret.filename].data) < 2 * Window
    /\ SumColumns(fs[ret.filename], 1, 0)[9] > 0
    /\ listArgs # <<>>
    /\ IsFileCriterion(listArgs[Len(listArgs)])

\* C9: a file on which open, stat, read or seek fails gets no criterion and
\* no entry in hashs: every file hashs names was read without error, and every
\* fingerprint among the criteria is that of a file read without error.
FingerprintErrorsAbort ==
    /\ \A h \in DOMAIN hashs : ReadsWell(fs[hashs[h]])
    /\ \A i \in DOMAIN listArgs :
          IsFileCriterion(listArgs[i])
          => \E n \in FileNames : /\ ReadsWell(fs[n])
                                  /\ listArgs[i].moviehash = SizePlusWindows(fs[n])

\* C9, witness: AddFile added a criterion and an entry of hashs for a file of
\* at least one window on which a read or the seek failed.
FailedReadFingerprinted ==
    /\ ret.op = "AddFile"
    /\ LET f == fs[ret.filename]
       IN  f.open /\ f.stat /\ (~f.read \/ ~f.seek) /\ Len(f.data) >= Window
    /\ ret.filename \in Range(hashs)
    /\ listArgs # <<>> /\ IsFileCriterion(listArgs[Len(listArgs)])

\* Get made the download call and got an array of payloads.
Decoded(r) == r.op = "Get" /\ r.called /\ server.download.kind = "array"

PayloadId(fi) == IF fi.struct THEN StringMember(fi.f, "idsubtitlefile")
                 ELSE [ok |-> FALSE, val |-> ""]

\* The payload names a download id that is not among the needed.
IdAbsent(fi, needed) == PayloadId(fi).ok /\ PayloadId(fi).val \notin DOMAIN needed

\* The gzip stream of a payload whose two members are strings: [err, reader].
StreamOf(fi) ==
    LET gz == Base64Decode(fi.f.data.val)
    IN  IF gz.err \/ Len(gz.bytes) = 0 THEN [err |-> TRUE, reader |-> NilReader]
        ELSE gzipNewReader(gz.bytes)

\* The payload is no mapping, lacks a string id or a string data, its base64
\* text does not decode or decodes to nothing, or its gzip header is not read.
Unreadable(fi) ==
    \/ ~PayloadId(fi).ok
    \/ ~StringMember(fi.f, "data").ok
    \/ StreamOf(fi).err

\* The payload is unreadable or its gzip stream does not decompress.
Undecodable(fi) == Unreadable(fi) \/ ReadAll(StreamOf(fi).reader).err # ""

\* The candidates the two indices of r hold.
Returned(r) == Held(r.byhash.m) \cup Held(r.byimdb.m)

\* C4: a payload whose download id is not among the needed is dropped: Get
\* returns the indices and leaves the candidates as it does on the payloads
\* without it, every candidate returned and every candidate whose content
\* changed has the id of a payload that stays.
AbsentIdsDropped ==
    [][Decoded(ret') =>
         LET D      == server.download.data
             needed == ret'.needed
             kept   == SelectSeq(D, LAMBDA fi : ~IdAbsent(fi, needed))
             r      == parseSubFiles(kept, needed, hashs, subs)
             ids    == {PayloadId(kept[i]).val : i \in DOMAIN kept}
         IN  /\ ret'.byhash = r.byhash
             /\ ret'.byimdb = r.byimdb
             /\ subs' = r.subs
             /\ DOMAIN subs' = DOMAIN subs
             /\ \A c \in DOMAIN subs :
                   (subs'[c] # subs[c] \/ c \in Returned(ret'))
                   => subs[c].IDSubtitleFile \in ids]_vars

\* C4, witness: Get decoded an array in which a payload with an id that is not
\* among the needed stands before a readable payload with a needed id, whose
\* candidate is returned.
AbsentIdBeforeNeededDecoded ==
    /\ Decoded(ret)
    /\ \E i, j \in DOMAIN server.download.data :
          LET D == server.download.data
          IN  /\ i < j
              /\ IdAbsent(D[i], ret.needed)
              /\ ~Unreadable(D[j])
              /\ PayloadId(D[j]).val \in DOMAIN ret.needed
              /\ ret.needed[PayloadId(D[j]).val] \in Returned(ret)

\* Get returns the indices and leaves the candidates as it does on the
\* payloads that are not Skipped, and every other payload with a needed id has
\* its candidate returned with a content attached.
SkipsOnly(Skipped(_)) ==
    Decoded(ret') =>
      LET D      == server.download.data
          needed == ret'.needed
          r      == parseSubFiles(SelectSeq(D, LAMBDA fi : ~Skipped(fi)), needed, hashs, subs)
      IN  /\ ret'.byhash = r.byhash
          /\ ret'.byimdb = r.byimdb
          /\ subs' = r.subs
          /\ \A i \in DOMAIN D :
                (~Skipped(D[i]) /\ PayloadId(D[i]).val \in DOMAIN needed)
                => /\ needed[PayloadId(D[i]).val] \in Returned(ret')
                   /\ ~subs'[needed[PayloadId(D[i]).val]].reader.nil

\* What the decoder does skip: a payload that is no mapping, lacks a string id
\* or a string data, whose base64 text does not decode or decodes to nothing,
\* or whose gzip header cannot be read, without ending the decode; every other
\* payload with a needed id has its candidate returned with a content.
UnreadablePayloadsSkipped == [][SkipsOnly(Unreadable)]_vars

\* C5: a payload that is no mapping, lacks a string id or a string data, whose
\* base64 text does not decode or decodes to nothing, or whose gzip stream does
\* not decompress is skipped, its candidate gets no content and enters no
\* index, the decode goes on, and every other readable payload with a needed
\* id has its candidate returned with a content.
UndecodablePayloadsSkipped == [][SkipsOnly(Undecodable)]_vars

\* C5, witness: Get decoded an array in which an unreadable payload stands
\* before a payload with a needed id and a gzip header followed by corrupt
\* data; the candidate is returned and reading its content fails.
CorruptStreamReturned ==
    /\ Decoded(ret)
    /\ \E i, j \in DOMAIN server.download.data :
          LET D == server.download.data
          IN  /\ i < j
              /\ Unreadable(D[i])
              /\ ~Unreadable(D[j])
              /\ PayloadId(D[j]).val \in DOMAIN ret.needed
              /\ ret.needed[PayloadId(D[j]).val] \in Returned(ret)
              /\ ReadAll(subs[ret.needed[PayloadId(D[j]).val]].reader).err # ""

\* C6: every key of the returned byhash is a file name given to AddFile, the
\* one hashs has for the fingerprint of the candidates under it, which is the
\* fingerprint of that file; every key of the returned byimdb is the catalog
\* id of the candidates under it.
KeysAreFileNamesAndCatalogIds ==
    ret.op = "Get" =>
      /\ \A p \in PairsOf(ret.byhash.m) :
            /\ \E i \in DOMAIN listArgs :
                  IsFileCriterion(listArgs[i]) /\ hashs[listArgs[i].moviehash] = p[1]
            /\ \A c \in Range(ret.byhash.m[p[1]][p[2]]) :
                  /\ subs[c].MovieHash \in DOMAIN hashs
                  /\ hashs[subs[c].MovieHash] = p[1]
                  /\ moviehash(fs[p[1]]).hash = subs[c].MovieHash
      /\ \A p \in PairsOf(ret.byimdb.m) :
            \A c \in Range(ret.byimdb.m[p[1]][p[2]]) : subs[c].IDMovieImdb = p[1]

\* C6, witness: after AddFile of a.avi, Get returned a candidate matched by
\* fingerprint under the empty key.
EmptyKeyReturned ==
    /\ ret.op = "Get"
    /\ "a.avi" \in Range(hashs)
    /\ "" \in DOMAIN ret.byhash.m

\* Every reference of the index has a language and every language a candidate.
NeverEmpty(byref) ==
    /\ \A k \in DOMAIN byref : DOMAIN byref[k] # {}
    /\ \A p \in PairsOf(byref) : Len(byref[p[1]][p[2]]) >= 1

\* The candidates the decoder inserts, in the order of their payloads.
Inserted ==
    LET D == SelectSeq(server.download.data,
                       LAMBDA fi : ~Unreadable(fi) /\ PayloadId(fi).val \in DOMAIN ret.needed)
    IN  [i \in DOMAIN D |-> ret.needed[PayloadId(D[i]).val]]

\* C7: in byhash and byimdb as mapSubInfos builds them and as Get returns
\* them, every reference has at least one language and every language at
\* least one candidate; a list of mapSubInfos holds its candidates in the
\* order of the answer, in which they are numbered, and a list of the decoder
\* in the order of the payloads.
ListsNeverEmptyInOrder ==
    /\ NeverEmpty(byhash.m) /\ NeverEmpty(byimdb.m)
    /\ SearchMapped =>
          \A byref \in {byhash.m, byimdb.m} : \A p \in PairsOf(byref) :
             \A j \in 1..(Len(byref[p[1]][p[2]]) - 1) :
                byref[p[1]][p[2]][j] < byref[p[1]][p[2]][j + 1]
    /\ ret.op = "Get" => NeverEmpty(ret.byhash.m) /\ NeverEmpty(ret.byimdb.m)
    /\ Decoded(ret) =>
          /\ \A p \in PairsOf(ret.byhash.m) :
                ret.byhash.m[p[1]][p[2]]
                  = SelectSeq(Inserted,
                              LAMBDA c : /\ subs[c].MatchedBy = "moviehash"
                                         /\ HashsLookup(hashs, subs[c].MovieHash) = p[1]
                                         /\ subs[c].SubLanguageID = p[2])
          /\ \A p \in PairsOf(ret.byimdb.m) :
                ret.byimdb.m[p[1]][p[2]]
                  = SelectSeq(Inserted,
                              LAMBDA c : /\ subs[c].MatchedBy = "imdbid"
                                         /\ subs[c].IDMovieImdb = p[1]
                                         /\ subs[c].SubLanguageID = p[2])

\* C7, witness: Get returned a list of two candidates in the order of their
\* payloads, which is not the order of the answer to the search.
TwoDecodedOutOfAnswerOrder ==
    /\ Decoded(ret)
    /\ \E p \in PairsOf(ret.byimdb.m) :
          LET list == ret.byimdb.m[p[1]][p[2]]
          IN  Len(list) >= 2 /\ list[1] > list[2]
    /\ \E p \in PairsOf(byimdb.m) : Len(byimdb.m[p[1]][p[2]]) >= 2

\* The login or the search call fails or answers in a shape Search cannot
\* use: no answer, an empty answer, no token or an empty one, no array under
\* data.
AnswerUnusable ==
    \/ server.login.kind # "token"
    \/ server.login.token = ""
    \/ server.search.kind # "array"

\* What a Search on an unusable answer does leave alone: the two indices with
\* their candidates, the criteria and hashs.
FailedSearchLeavesQuery ==
    [][(Search /\ AnswerUnusable)
       => UNCHANGED <<byhash, byimdb, subs, listArgs, hashs>>]_vars

\* C11: a Search whose login or search call fails or answers in a malformed
\* shape (no token, no array under data) returns an error and leaves the two
\* indices of an earlier Search, the criteria and hashs as they were.
FailedSearchReportedAndHarmless ==
    [][(Search /\ AnswerUnusable)
       => /\ ret'.err # ""
          /\ UNCHANGED <<byhash, byimdb, subs, listArgs, hashs>>]_vars

\* C11, witness: Search returned no error although no Search of this query
\* ever got an array of records: the search call did not fail and its answer
\* had no array under data.
SearchWithoutArrayReturnedNil ==
    /\ ret.op = "Search" /\ ret.err = ""
    /\ byhash.nil /\ byimdb.nil
    /\ listArgs # <<>>

\* The number of places the index has for candidates.
Places(byref) ==
    SumOver(PairsOf(byref), [p \in PairsOf(byref) |-> Len(byref[p[1]][p[2]])])

\* Every candidate Get returns is the one needed has for its id, and after a
\* decode its content is the stream of a readable payload with that id.
ReturnedAreNeededWithOwnContent ==
    ret.op = "Get" =>
      /\ \A c \in Returned(ret) :
            IdOf(c) \in DOMAIN ret.needed /\ ret.needed[IdOf(c)] = c
      /\ Decoded(ret) =>
            \A c \in Returned(ret) :
               \E i \in DOMAIN server.download.data :
                  LET fi == server.download.data[i]
                  IN  /\ ~Unreadable(fi)
                      /\ PayloadId(fi).val = IdOf(c)
                      /\ subs[c].reader = StreamOf(fi).reader

\* C12: for any list of payloads, also one that has a download id more than
\* once, every candidate Get returns is one that Get put in needed, has the
\* content of a payload with its own id, and is returned once in all; so a
\* pair of the returned byimdb has at most as many candidates as the quota and
\* a pair of the returned byhash at most one.
ReturnedOnceWithinQuota ==
    /\ ReturnedAreNeededWithOwnContent
    /\ ret.op = "Get" =>
          /\ Places(ret.byhash.m) + Places(ret.byimdb.m) = Cardinality(Returned(ret))
          /\ \A p \in PairsOf(ret.byimdb.m) :
                ret.n = -1 \/ Len(ret.byimdb.m[p[1]][p[2]]) <= ret.n
          /\ \A p \in PairsOf(ret.byhash.m) : Len(ret.byhash.m[p[1]][p[2]]) <= 1

\* The payloads that name a download id name different ones.
PayloadIdsDiffer ==
    \A i, j \in DOMAIN server.download.data :
       (i # j /\ PayloadId(server.download.data[i]).ok)
       => PayloadId(server.download.data[i]) # PayloadId(server.download.data[j])

\* On payloads with different ids every candidate is returned once and the
\* lists are within the quota.
ReturnedOnceForDifferentIds ==
    (Decoded(ret) /\ PayloadIdsDiffer) => ReturnedOnceWithinQuota

\* C12, witness: Get with quota 1 decoded two payloads with one id and returned
\* the candidate twice in one list.
CandidateReturnedTwice ==
    /\ Decoded(ret) /\ ret.n = 1
    /\ \E p \in PairsOf(ret.byimdb.m) :
          LET list == ret.byimdb.m[p[1]][p[2]]
          IN  Len(list) = 2 /\ list[1] = list[2]
    /\ \E i, j \in DOMAIN server.download.data :
          /\ i < j
          /\ PayloadId(server.download.data[i]) = PayloadId(server.download.data[j])

====
